---- MODULE Spec2Model ----
(***************************************************************************)
(* Model of msk/actions/create.py: CreateAction, the interactive skill     *)
(* scaffolding action.                                                     *)
(*                                                                         *)
(* Spec     : one Python process that calls the public methods of one      *)
(*            CreateAction (initialize_template, commit_changes,           *)
(*            create_github_repo, perform), with exceptions either caught  *)
(*            by the caller or ending the process, and the atexit table.   *)
(* SpecName : the skill-name prompt loop (CreateAction.name) followed by   *)
(*            the rendering of the code stub (CreateAction.init_file).     *)
(***************************************************************************)
EXTENDS Integers, Sequences, FiniteSets, TLC

VARIABLES
    \* ---- the process and the skill directory (Spec) ----
    pc,           \* position of the process: idle, template, unregister, commit, github, report, raised, exited
    inPerform,    \* TRUE while the running method was called from perform
    fs,           \* skill directory: template path -> "absent" | "old" | "new"
    handlers,     \* atexit table: ids of the calls whose cleanup closure is registered
    run,          \* number of initialize_template calls so far; the id of the current call's closure
    calls,        \* number of public-method calls made by the caller so far
    files,        \* the files argument of the current initialize_template call ({} is None)
    idx,          \* index in skill_template of the entry the loop is at
    commits,      \* number of commits in the skill repository
    staged,       \* TRUE once git add '.' ran
    origin,       \* TRUE when a remote named origin is configured
    exc,          \* exception in flight: "none" or its class
    io,           \* what create_github_repo did to the outside world so far
    ret,          \* return value of the last create_github_repo call
    hist,         \* history of the current initialize_template call and of the process
    \* ---- the name prompt loop (SpecName) ----
    npc,          \* position in CreateAction.name: ask, collide, confirm, returned, failed, rendered
    name_to_skill,\* keys of the dict built at line 116
    disk,         \* names of the skills whose directory exists on disk
    name,         \* the normalised name of the current iteration
    skill,        \* the skill found at line 122, <<>> when none
    class_name,   \* class name printed at line 134
    stub_class,   \* class name substituted into init_template
    asks,         \* number of names entered so far
    nhist         \* history of the loop

procVars == <<pc, inPerform, fs, handlers, run, calls, files, idx, commits, staged,
              origin, exc, io, ret, hist>>
nameVars == <<npc, name_to_skill, disk, name, skill, class_name, stub_class, asks, nhist>>
vars == <<procVars, nameVars>>

\* ---- bounds ----
MaxCalls == 2
MaxCommits == 2
MaxLen == 3
MaxAsks == 2

\* ---- program constants ----
AlreadyExistsStatus == 422

(***************************************************************************)
(* The skill template, lines 186-197.                                      *)
(***************************************************************************)
skill_template ==
    << [file |-> "",                  handler |-> "makedirs"],
       [file |-> "__init__.py",       handler |-> "text"],
       [file |-> "README.md",         handler |-> "text"],
       [file |-> "vocab",             handler |-> "add_vocab"],
       [file |-> "dialog",            handler |-> "add_dialog"],
       [file |-> ".gitignore",        handler |-> "text"],
       [file |-> "settingsmeta.json", handler |-> "text"],
       [file |-> ".git",              handler |-> "git_init"] >>

Paths == {skill_template[i].file : i \in 1..Len(skill_template)}

\* os.path.isdir(self.path), line 202
isdir(f) == f[""] # "absent"

\* os.path.exists(join(self.path, file)), lines 207 and 209
exists(f, file) == f[""] # "absent" /\ f[file] # "absent"

\* shutil.rmtree(self.path), line 200: the whole tree goes
rmtree(f) == [p \in Paths |-> "absent"]

\* what a handler returns: the content lambdas and git.init() return a str
ReturnsStr(h) == h \in {"text", "git_init"}

\* a handler that cannot succeed in this state of the directory: git init
\* runs with cwd = self.path, and open(.., 'w') needs the parent directory
MustRaise(h, f) == h \in {"text", "git_init"} /\ ~isdir(f)

\* the side effect of invoking a handler (lines 187, 174-176, 179-181, 196)
HandlerEffect(h, file, f) ==
    CASE h = "makedirs"   -> [f EXCEPT ![""] = "new"]
      [] h = "add_vocab"  -> [f EXCEPT ![""] = IF @ = "absent" THEN "new" ELSE @,
                                       !["vocab"] = "new"]
      [] h = "add_dialog" -> [f EXCEPT ![""] = IF @ = "absent" THEN "new" ELSE @,
                                       !["dialog"] = "new"]
      [] h = "git_init"   -> [f EXCEPT ![".git"] = "new"]
      [] OTHER            -> f

\* line 205: the filter; files = {} stands for None and for the empty set
Filtered(fl, file) == fl # {} /\ file \notin fl

\* ShouldInvoke without the exists test of line 207
ShouldInvoke_always(fl, file, f) == ~Filtered(fl, file)

\* line 207: is the entry's handler invoked
ShouldInvoke(fl, file, f) == ~Filtered(fl, file) /\ ~exists(f, file)

\* lines 208-211: the body of the if at line 207
InvokeAndWrite(h, file, f) ==
    LET g == HandlerEffect(h, file, f)
    IN IF ReturnsStr(h) /\ ~exists(g, file) THEN [g EXCEPT ![file] = "new"] ELSE g

\* RegisterCleanup with the test of line 202 inverted
RegisterCleanup_inverted(hs, id, f) == IF isdir(f) THEN hs \cup {id} ELSE hs

\* lines 202-203
RegisterCleanup(hs, id, f) == IF ~isdir(f) THEN hs \cup {id} ELSE hs

\* line 212: atexit.unregister removes the entries equal to this call's closure
UnregisterCleanup(hs, id) == hs \ {id}

\* interpreter exit: every registered cleanup closure runs rmtree(self.path)
RunExitHandlers(hs, f) == IF hs # {} THEN rmtree(f) ELSE f

(***************************************************************************)
(* Initial states of the process                                           *)
(***************************************************************************)
FileFilters == { {}, {"vocab"}, {"__init__.py", ".git"}, {"", "README.md"} }

NoIO == [asked |-> 0, creds |-> 0, api |-> 0, pushes |-> 0, status |-> 0]

NoHist == [startFs |-> [p \in Paths |-> "absent"], startExisted |-> FALSE,
           invoked |-> {}, everExisted |-> FALSE, returnedOk |-> FALSE,
           fullDone |-> FALSE, raisedIn |-> "none", exitPc |-> "none",
           okCommits |-> 0, commits0 |-> 0, caught |-> "none", ghRaised |-> "none"]

ProcIdle ==
    /\ pc = "idle" /\ inPerform = FALSE /\ handlers = {} /\ run = 0 /\ calls = 0
    /\ files = {} /\ idx = 0 /\ staged = FALSE /\ exc = "none" /\ io = NoIO
    /\ ret = "-"

InitProc ==
    /\ ProcIdle
    /\ \/ fs = [p \in Paths |-> "absent"]
       \/ \E S \in SUBSET (Paths \ {""}) :
            fs = [p \in Paths |-> IF p = "" \/ p \in S THEN "old" ELSE "absent"]
    /\ IF fs[".git"] = "absent"
         THEN commits = 0 /\ origin = FALSE
         ELSE commits \in 0..MaxCommits /\ origin \in BOOLEAN
    /\ hist = [NoHist EXCEPT !.commits0 = commits]

(***************************************************************************)
(* initialize_template, lines 183-212                                      *)
(***************************************************************************)
\* lines 184-203: the call, up to the registration of the cleanup closure
StartTemplate(fl, perf) ==
    /\ pc = "idle" /\ calls < MaxCalls
    /\ calls' = calls + 1
    /\ run' = run + 1
    /\ files' = fl
    /\ inPerform' = perf
    /\ handlers' = RegisterCleanup(handlers, run + 1, fs)
    /\ idx' = 1
    /\ pc' = "template"
    /\ hist' = [hist EXCEPT !.startFs = fs, !.startExisted = isdir(fs), !.invoked = {},
                            !.everExisted = @ \/ isdir(fs), !.returnedOk = FALSE,
                            !.raisedIn = "none", !.caught = "none"]
    /\ UNCHANGED <<nameVars, fs, commits, staged, origin, exc, io, ret>>

initialize_template == \E fl \in FileFilters : StartTemplate(fl, FALSE)

\* lines 204-211: one iteration of the loop, the handler (if invoked) succeeding
TemplateStep ==
    /\ pc = "template" /\ idx <= Len(skill_template)
    /\ LET e == skill_template[idx]
       IN IF ShouldInvoke(files, e.file, fs)
            THEN /\ ~MustRaise(e.handler, fs)
                 /\ fs' = InvokeAndWrite(e.handler, e.file, fs)
                 /\ hist' = [hist EXCEPT !.invoked = @ \cup {e.file}]
            ELSE UNCHANGED <<fs, hist>>
    /\ idx' = idx + 1
    /\ pc' = IF idx = Len(skill_template) THEN "unregister" ELSE "template"
    /\ UNCHANGED <<nameVars, inPerform, handlers, run, calls, files, commits, staged, origin, exc, io, ret>>

\* line 208: the handler raises (a failed makedirs or git init, an aborted
\* prompt of a lazily computed field, open() in a missing directory)
HandlerRaises ==
    /\ pc = "template" /\ idx <= Len(skill_template)
    /\ ShouldInvoke(files, skill_template[idx].file, fs)
    /\ pc' = "raised"
    /\ exc' = "Error"
    /\ hist' = [hist EXCEPT !.invoked = @ \cup {skill_template[idx].file},
                            !.raisedIn = "template"]
    /\ UNCHANGED <<nameVars, inPerform, fs, handlers, run, calls, files, idx, commits, staged, origin, io, ret>>

\* line 212, and the return
Unregister ==
    /\ pc = "unregister"
    /\ handlers' = UnregisterCleanup(handlers, run)
    /\ pc' = IF inPerform THEN "commit" ELSE "idle"
    /\ hist' = [hist EXCEPT !.returnedOk = TRUE, !.fullDone = @ \/ files = {}]
    /\ UNCHANGED <<nameVars, inPerform, fs, run, calls, files, idx, commits, staged, origin, exc, io, ret>>

(***************************************************************************)
(* commit_changes, lines 214-217                                           *)
(***************************************************************************)
\* HeadUnresolved without the comparison with 'HEAD' of line 215
HeadUnresolved_always(f, c) == exists(f, ".git")

\* git rev-parse HEAD prints HEAD when the repository has no commit
HeadUnresolved(f, c) == exists(f, ".git") /\ c = 0

CallCommitChanges ==
    /\ pc = "idle" /\ calls < MaxCalls
    /\ calls' = calls + 1
    /\ inPerform' = FALSE
    /\ pc' = "commit"
    /\ UNCHANGED <<nameVars, fs, handlers, run, files, idx, commits, staged, origin, exc, io, ret, hist>>

commit_changes ==
    /\ pc = "commit"
    /\ IF ~isdir(fs)
         THEN \* git cannot run in a missing working directory
              /\ pc' = "raised" /\ exc' = "Error"
              /\ hist' = [hist EXCEPT !.raisedIn = "commit"]
              /\ UNCHANGED <<commits, staged>>
         ELSE IF HeadUnresolved(fs, commits)
           THEN /\ staged' = TRUE
                /\ \/ /\ commits' = commits + 1
                      /\ pc' = IF inPerform THEN "github" ELSE "idle"
                      /\ hist' = [hist EXCEPT !.okCommits = @ + 1]
                      /\ UNCHANGED exc
                   \/ \* git commit fails (no identity configured)
                      /\ pc' = "raised" /\ exc' = "Error"
                      /\ hist' = [hist EXCEPT !.raisedIn = "commit"]
                      /\ UNCHANGED commits
           ELSE /\ pc' = IF inPerform THEN "github" ELSE "idle"
                /\ hist' = [hist EXCEPT !.okCommits = IF exists(fs, ".git") THEN @ + 1 ELSE @]
                /\ UNCHANGED <<commits, staged, exc>>
    /\ UNCHANGED <<nameVars, inPerform, fs, handlers, run, calls, files, idx, origin, io, ret>>

(***************************************************************************)
(* create_github_repo, lines 219-234                                       *)
(***************************************************************************)
\* outcome of user.create_repo (line 225): 0 when the repository was
\* created, else the status of the GithubException it raised
ErrorStatuses == {AlreadyExistsStatus, 401, 500}
ApiStatuses == {0} \cup ErrorStatuses

\* CreateRepoError without the 422 branch of lines 227-228
CreateRepoError_reraise(status) == "GithubException"

\* lines 226-229: the exception that leaves the try block
CreateRepoError(status) ==
    IF status = AlreadyExistsStatus THEN "GithubRepoExists" ELSE "GithubException"

\* NoOrigin without the test of line 220
NoOrigin_always(o) == TRUE

\* line 220: is the body entered
NoOrigin(o) == ~o

\* msk.util.print_error(cls): the with block swallows (and prints) an
\* exception of class cls and lets any other propagate
print_error(cls, e) == IF e = cls THEN "none" ELSE e

\* Propagated without the with block of line 239
Propagated_uncaught(e) == e

\* the exception that leaves the running top-level method when
\* create_github_repo ends with e: perform wraps the call in print_error
\* (lines 239-240)
Propagated(e) == IF inPerform THEN print_error("GithubRepoExists", e) ELSE e

\* where the end of create_github_repo with e leaves the process
AfterGithub(e) ==
    IF Propagated(e) # "none" THEN "raised" ELSE IF inPerform THEN "report" ELSE "idle"

CallCreateGithubRepo ==
    /\ pc = "idle" /\ calls < MaxCalls
    /\ calls' = calls + 1
    /\ inPerform' = FALSE
    /\ pc' = "github"
    /\ UNCHANGED <<nameVars, fs, handlers, run, files, idx, commits, staged, origin, exc, io, ret, hist>>

create_github_repo ==
    /\ pc = "github"
    /\ IF ~isdir(fs)
         THEN \* git remote cannot run in a missing working directory
              /\ pc' = "raised" /\ exc' = "Error" /\ ret' = "-"
              /\ hist' = [hist EXCEPT !.raisedIn = "github", !.ghRaised = "Error"]
              /\ UNCHANGED <<origin, io>>
         ELSE IF NoOrigin(origin)
           THEN \E answer \in BOOLEAN :
                  IF answer
                    THEN \E status \in ApiStatuses :
                           /\ io' = [io EXCEPT !.asked = @ + 1, !.creds = @ + 1, !.api = @ + 1,
                                               !.status = status,
                                               !.pushes = IF status = 0 THEN @ + 1 ELSE @]
                           /\ IF status = 0
                                THEN /\ origin' = TRUE /\ ret' = "repo" /\ exc' = "none"
                                     /\ pc' = AfterGithub("none")
                                     /\ hist' = [hist EXCEPT !.ghRaised = "none"]
                                ELSE /\ origin' = origin /\ ret' = "-"
                                     /\ exc' = Propagated(CreateRepoError(status))
                                     /\ pc' = AfterGithub(CreateRepoError(status))
                                     /\ hist' = [hist EXCEPT
                                           !.ghRaised = CreateRepoError(status),
                                           !.raisedIn = IF Propagated(CreateRepoError(status)) # "none"
                                                          THEN "github" ELSE @,
                                           !.caught = IF Propagated(CreateRepoError(status)) = "none"
                                                        THEN CreateRepoError(status) ELSE @]
                    ELSE /\ io' = [io EXCEPT !.asked = @ + 1]
                         /\ ret' = "None" /\ pc' = AfterGithub("none")
                         /\ hist' = [hist EXCEPT !.ghRaised = "none"]
                         /\ UNCHANGED <<origin, exc>>
           ELSE /\ ret' = "None" /\ pc' = AfterGithub("none")
                /\ hist' = [hist EXCEPT !.ghRaised = "none"]
                /\ UNCHANGED <<origin, exc, io>>
    /\ UNCHANGED <<nameVars, inPerform, fs, handlers, run, calls, files, idx, commits, staged>>

(***************************************************************************)
(* perform, lines 236-241                                                  *)
(***************************************************************************)
\* line 237: perform calls initialize_template() with no filter
perform == StartTemplate({}, TRUE)

\* line 241: the final print, and the return
Report ==
    /\ pc = "report"
    /\ pc' = "idle"
    /\ inPerform' = FALSE
    /\ UNCHANGED <<nameVars, fs, handlers, run, calls, files, idx, commits, staged, origin, exc, io, ret, hist>>

(***************************************************************************)
(* The caller and the interpreter                                          *)
(***************************************************************************)
\* the caller catches the exception a method raised and goes on
Catch ==
    /\ pc = "raised"
    /\ pc' = "idle"
    /\ exc' = "none"
    /\ inPerform' = FALSE
    /\ UNCHANGED <<nameVars, fs, handlers, run, calls, files, idx, commits, staged, origin, io, ret, hist>>

\* the process ends here (uncaught exception, interrupt, sys.exit or the end
\* of the program): the interpreter runs the registered atexit handlers
Terminate ==
    /\ pc # "exited"
    /\ pc' = "exited"
    /\ fs' = RunExitHandlers(handlers, fs)
    /\ hist' = [hist EXCEPT !.exitPc = pc]
    /\ UNCHANGED <<nameVars, inPerform, handlers, run, calls, files, idx, commits, staged, origin, exc, io, ret>>

(***************************************************************************)
(* The name prompt loop, lines 114-139, and init_file, lines 166-170       *)
(***************************************************************************)
Letters == {"a", "b", "A", "B"}
InputChars == {"a", "B", " ", "-", "1"}
Inputs == UNION {[1..n -> InputChars] : n \in 1..MaxLen}

Skill == <<"S", "k", "i", "l", "l">>
DashSkill == <<"-", "s", "k", "i", "l", "l">>

\* line 120: re.match(r'^[a-zA-Z \-]+$', x)
ValidName(x) == Len(x) >= 1 /\ \A i \in 1..Len(x) : x[i] \in Letters \cup {" ", "-"}

lowerc(c) == CASE c = "A" -> "a" [] c = "B" -> "b" [] OTHER -> c
upperc(c) == CASE c = "a" -> "A" [] c = "b" -> "B" [] OTHER -> c

\* str.lower()
lower(x) == [i \in 1..Len(x) |-> lowerc(x[i])]

\* str.replace(a, b) for single characters
replace(x, a, b) == [i \in 1..Len(x) |-> IF x[i] = a THEN b ELSE x[i]]

\* str.strip(' -')
RECURSIVE lstrip(_)
lstrip(x) == IF x # <<>> /\ Head(x) \in {" ", "-"} THEN lstrip(Tail(x)) ELSE x
RECURSIVE rstrip(_)
rstrip(x) ==
    IF x # <<>> /\ x[Len(x)] \in {" ", "-"} THEN rstrip(SubSeq(x, 1, Len(x) - 1)) ELSE x
strip(x) == rstrip(lstrip(x))

\* line 121: .strip(' -').lower().replace(' ', '-')
Normalise(x) == replace(lower(strip(x)), " ", "-")

\* msk.util.to_camel: the snake_case name in PascalCase; every letter that
\* starts a word is upper-cased, the others lower-cased, underscores dropped
title(x) == [i \in 1..Len(x) |->
               IF i = 1 \/ x[i - 1] \notin Letters THEN upperc(x[i]) ELSE lowerc(x[i])]
to_camel(x) == SelectSeq(title(x), LAMBDA c : c # "_")

\* line 131: the class name shown to the user
ShownClassName(n) == to_camel(replace(n, "-", "_")) \o Skill

\* line 167: the class name substituted into init_template
StubClassName(n) == to_camel(replace(n, "-", "_"))

\* line 132
RepoName(n) == n \o DashSkill

\* line 122: name_to_skill.get(name, name_to_skill.get('{}-skill'.format(name)))
Lookup(d, n) == IF n \in d THEN n ELSE IF (n \o DashSkill) \in d THEN n \o DashSkill ELSE <<>>

\* the skills msm.list() may report: "a", "a-skill", "b-skill"
SkillNames == { <<"a">>, <<"a">> \o DashSkill, <<"b">> \o DashSkill }

NoNameHist == [removed |-> {}, confirmed |-> FALSE, declined |-> FALSE]

NameIdle ==
    /\ npc = "ask" /\ name = <<>> /\ skill = <<>> /\ class_name = <<>>
    /\ stub_class = <<>> /\ asks = 0 /\ nhist = NoNameHist

\* line 116: the dict is built once, from the skills installed at that time
InitNameLoop ==
    /\ NameIdle
    /\ \E installed \in SUBSET SkillNames :
         /\ name_to_skill = installed
         /\ disk = installed

\* lines 118-123: a name is entered (ask_input returns only what the
\* validator accepts), normalised and looked up
AskName ==
    /\ npc = "ask" /\ asks < MaxAsks
    /\ \E x \in Inputs :
         /\ ValidName(x)
         /\ name' = Normalise(x)
         /\ skill' = Lookup(name_to_skill, Normalise(x))
         /\ IF Lookup(name_to_skill, Normalise(x)) # <<>>
              THEN npc' = "collide" /\ UNCHANGED class_name
              ELSE npc' = "confirm" /\ class_name' = ShownClassName(Normalise(x))
    /\ asks' = asks + 1
    /\ nhist' = [nhist EXCEPT !.confirmed = FALSE, !.declined = FALSE]
    /\ UNCHANGED <<procVars, name_to_skill, disk, stub_class>>

\* lines 127-131: the answer to 'Remove it?'
AnswerRemove ==
    /\ npc = "collide"
    /\ \E yes \in BOOLEAN :
         IF yes
           THEN IF skill \in disk
                  THEN /\ disk' = disk \ {skill}
                       /\ npc' = "confirm"
                       /\ class_name' = ShownClassName(name)
                       /\ nhist' = [nhist EXCEPT !.removed = @ \cup {skill}]
                  ELSE \* rmtree of a directory that is gone raises FileNotFoundError
                       /\ npc' = "failed"
                       /\ UNCHANGED <<disk, class_name, nhist>>
           ELSE /\ npc' = "ask"
                /\ nhist' = [nhist EXCEPT !.declined = TRUE]
                /\ UNCHANGED <<disk, class_name>>
    /\ UNCHANGED <<procVars, name_to_skill, name, skill, stub_class, asks>>

\* lines 137-139: the answer to 'Looks good?'
AnswerLooksGood ==
    /\ npc = "confirm"
    /\ \E alright \in BOOLEAN :
         /\ npc' = IF alright THEN "returned" ELSE "ask"
         /\ nhist' = [nhist EXCEPT !.confirmed = alright]
    /\ UNCHANGED <<procVars, name_to_skill, disk, name, skill, class_name, stub_class, asks>>

\* lines 166-170: the code stub is rendered from the returned name
init_file ==
    /\ npc = "returned"
    /\ stub_class' = StubClassName(name)
    /\ npc' = "rendered"
    /\ UNCHANGED <<procVars, name_to_skill, disk, name, skill, class_name, asks, nhist>>

(***************************************************************************)
(* Specifications                                                          *)
(***************************************************************************)
Init ==
    /\ InitProc
    /\ NameIdle /\ name_to_skill = {} /\ disk = {}

NextProc ==
    \/ initialize_template
    \/ TemplateStep
    \/ HandlerRaises
    \/ Unregister
    \/ CallCommitChanges
    \/ commit_changes
    \/ CallCreateGithubRepo
    \/ create_github_repo
    \/ perform
    \/ Report
    \/ Catch
    \/ Terminate

Next == NextProc

Spec == Init /\ [][Next]_vars

InitName ==
    /\ InitNameLoop
    /\ ProcIdle /\ fs = [p \in Paths |-> "absent"] /\ commits = 0 /\ origin = FALSE
    /\ hist = NoHist

NextNameLoop ==
    \/ AskName
    \/ AnswerRemove
    \/ AnswerLooksGood
    \/ init_file

NextName == NextNameLoop

SpecName == InitName /\ [][NextName]_vars

TypeOK ==
    /\ pc \in {"idle", "template", "unregister", "commit", "github", "report", "raised", "exited"}
    /\ fs \in [Paths -> {"absent", "old", "new"}]
    /\ handlers \subseteq 1..run
    /\ calls \in 0..MaxCalls

(***************************************************************************)
(* Properties of the process                                               *)
(***************************************************************************)
\* the process ended inside the template loop of the current call: at an
\* iteration, or by the exception a handler raised
TerminatedInLoop ==
    /\ pc = "exited"
    /\ \/ hist.exitPc = "template"
       \/ hist.exitPc = "raised" /\ hist.raisedIn = "template"

\* C1: when the skill directory did not exist at the start of
\* initialize_template and the process ends between the registration of the
\* cleanup handler and the end of the template loop, the directory does not
\* exist after the exit, whatever entries had been created.
C1_AbortedFirstCreationIsRemoved ==
    (TerminatedInLoop /\ ~hist.startExisted) => ~isdir(fs)

C1_Witness ==
    /\ TerminatedInLoop /\ ~hist.startExisted
    /\ {"", "__init__.py", "vocab"} \subseteq hist.invoked
    /\ ~isdir(fs)

\* C2: when the skill directory existed at the start of some
\* initialize_template call of the process, the directory still exists after
\* the process has exited.
C2_PreExistingDirectoryKept ==
    (pc = "exited" /\ hist.everExisted) => isdir(fs)

\* C3: initialize_template never overwrites: a path that existed when the
\* call started keeps its content and its handler is not invoked; a call that
\* follows a completed unfiltered call changes nothing, invokes nothing and
\* raises nothing.
C3_NeverOverwrites ==
    /\ (run >= 1 /\ pc # "exited") =>
          \A p \in Paths : exists(hist.startFs, p) =>
              fs[p] = hist.startFs[p] /\ p \notin hist.invoked
    /\ (hist.fullDone /\ pc \in {"template", "unregister"}) =>
          fs = hist.startFs /\ hist.invoked = {}
    /\ hist.fullDone => ~(pc = "raised" /\ hist.raisedIn = "template")

C3_Witness ==
    /\ pc = "unregister" /\ hist.fullDone /\ files = {}
    /\ fs[".gitignore"] = "old" /\ fs["README.md"] = "new"

\* C4: once initialize_template has returned normally no cleanup handler is
\* registered, and the skill directory exists from then on, also after the
\* process has exited.
C4_NoHandlerAfterReturn ==
    hist.returnedOk => (handlers = {} /\ isdir(fs))

\* C5: commit_changes commits only when the repository has no commit, and
\* then exactly once: on a repository with a commit it changes nothing, and
\* after any number of calls on a repository that started without commits
\* there is exactly one commit.
C5_CommitIdempotent ==
    /\ []((hist.commits0 = 0 /\ hist.okCommits >= 1 /\ pc # "exited") => commits = 1)
    /\ [][(pc = "commit" /\ commits >= 1) => (commits' = commits /\ staged' = staged)]_vars
    /\ [][commits' # commits =>
            (pc = "commit" /\ commits = 0 /\ commits' = 1 /\ staged')]_vars

C5_Witness ==
    /\ hist.commits0 = 0 /\ hist.okCommits >= 2 /\ commits = 1
    /\ fs[".git"] = "new" /\ pc = "idle"

\* C6: with a remote named origin configured, create_github_repo asks
\* nothing, requests no credentials, calls no API, adds no remote, pushes
\* nothing and returns None.
C6_OriginConfiguredNoEffect ==
    [][(pc = "github" /\ origin /\ pc' \notin {"github", "exited"}) =>
         (io' = io /\ origin' = origin /\ ret' = "None" /\ exc' = "none"
          /\ hist'.ghRaised = "none")]_vars

C6_Witness ==
    /\ ret = "None" /\ origin /\ io = NoIO /\ pc = "idle" /\ calls >= 1

\* C7: an API error of create_repo with status 422 leaves create_github_repo
\* as GithubRepoExists, one with any other status as the GithubException it
\* is; in both cases no remote is added and nothing is pushed.
C7_ApiErrorMapping ==
    [][(pc = "github" /\ io'.api = io.api + 1 /\ io'.status # 0) =>
         /\ io'.status = AlreadyExistsStatus => hist'.ghRaised = "GithubRepoExists"
         /\ io'.status # AlreadyExistsStatus => hist'.ghRaised = "GithubException"
         /\ origin' = origin /\ ~origin'
         /\ io'.pushes = io.pushes
         /\ ret' # "repo"]_vars

C7_Witness ==
    /\ hist.ghRaised = "GithubRepoExists" /\ io.status = AlreadyExistsStatus
    /\ io.api = 1 /\ ~origin /\ io.pushes = 0

\* C8: in perform, GithubRepoExists from create_github_repo does not abort:
\* perform goes on to its final print with the directory and a commit in
\* place; any other API error leaves perform as that error, the directory
\* and the commit in place.
C8_PerformErrorHandling ==
    [][(pc = "github" /\ inPerform /\ io'.api = io.api + 1 /\ io'.status # 0) =>
         /\ io'.status = AlreadyExistsStatus => (pc' = "report" /\ exc' = "none")
         /\ io'.status # AlreadyExistsStatus => (pc' = "raised" /\ exc' = "GithubException")
         /\ fs' = fs /\ isdir(fs') /\ exists(fs', ".git")
         /\ commits' = commits /\ commits' >= 1]_vars

C8_Witness ==
    /\ pc = "report" /\ inPerform /\ hist.caught = "GithubRepoExists"
    /\ isdir(fs) /\ commits >= 1

(***************************************************************************)
(* Properties of the name loop and of the class name                       *)
(***************************************************************************)
\* C9: the class name is the PascalCase form of the name followed by
\* "Skill", and the class name shown for confirmation is the one the code
\* stub is rendered with.
C9_ClassNameSameEverywhere ==
    /\ npc \in {"confirm", "returned", "rendered"} =>
          class_name = to_camel(replace(name, "-", "_")) \o Skill
    /\ (npc = "confirm" /\ name = <<"a", "-", "b">>) =>
          class_name = <<"A", "B", "S", "k", "i", "l", "l">>
    /\ npc = "rendered" => stub_class = class_name

\* C10: the name loop never fails on a collision (a removal is attempted
\* only on a directory that exists), and returns a name only when the user
\* confirmed it and the directory of the skill it collided with is gone.
C10_NameLoopSafe ==
    /\ npc # "failed"
    /\ npc \in {"returned", "rendered"} =>
          /\ nhist.confirmed
          /\ skill # <<>> => skill \notin disk

====
